---- MODULE Spec2Model ----
(***************************************************************************)
(* Model of the `logical` class of src/src/logical/logical.py: a tuple     *)
(* subclass holding the output column of a truth table, with construction  *)
(* validation (__init__), evaluation (__call__), name(), arity() and       *)
(* compiled() (which builds a decision procedure through _to_ast).         *)
(***************************************************************************)
EXTENDS Integers, Sequences, FiniteSets, TLC

(***************************************************************************)
(* Bounds of the model.                                                    *)
(***************************************************************************)
\* Longest 0/1 iterable handed to the constructor.
MaxLen == 8
\* Longest iterable with arbitrary elements handed to the constructor.
MaxMixedLen == 3
\* Largest number of 0/1 inputs in one call.
MaxArgs == 4
\* Largest number of arbitrary inputs in one call.
MaxMixedArgs == 2
\* Largest arity of the operators of the exhaustive evaluation (SpecCall, SpecFunction).
MaxArity == 4
\* Number of threads that use one operator (SpecThreads).
NumThreads == 2
\* Largest number of 0/1 inputs in one call of a thread.
MaxThreadArgs == 3
\* Largest number of 0/1 inputs in one call of SpecLongRows.
MaxLongArgs == 5

(***************************************************************************)
(* Python values.  Every value is a record with a type and a value, so     *)
(* that isinstance checks are checks of the type field.                    *)
(***************************************************************************)
PyInt(n) == [type |-> "int", value |-> n]
PyStr(s) == [type |-> "str", value |-> s]
PyColl(kind, items) == [type |-> kind, value |-> items]

\* isinstance(v, int)
IsInt(v) == v.type = "int"

\* isinstance(v, collections.abc.Iterable)
IsIterable(v) == v.type \in {"str", "list", "tuple", "iterator"}

\* tuple(v) for an iterable v: the items in order; a string yields its
\* characters (the strings of the model have one character).
ToTuple(v) == IF v.type = "str" THEN <<v>> ELSE v.value

\* The outcome of an operation: a returned value or a raised exception.
Return(v) == [kind |-> "return", value |-> v]
Raise(exc, msg) == [kind |-> "raise", exc |-> exc, msg |-> msg]

\* The tuple of Python ints for a sequence of numbers.
T(ns) == [i \in 1..Len(ns) |-> PyInt(ns[i])]

\* All sequences over S of length at most n.
BoundedSeq(S, n) == UNION {[1..k -> S] : k \in 0..n}

\* Sequence membership and the set of items of a sequence.
Items(s) == {s[i] : i \in 1..Len(s)}

(***************************************************************************)
(* Exceptions, under the names of the error taxonomy.                      *)
(***************************************************************************)
InvalidElementType ==
    Raise("TypeError", "all entries in supplied truth table must be integers")
InvalidElementValue ==
    Raise("ValueError", "all integers in supplied truth table must be 0 or 1")
InvalidLength ==
    Raise("ValueError",
          "number of elements in supplied truth table must be zero or a power of 2")
InvalidArgumentType ==
    Raise("TypeError",
          "expecting zero or more integers or a single iterable of integers")
InvalidArgumentValue ==
    Raise("ValueError", "expecting an integer that is 0 or 1")
UndefinedOperator == Raise("ValueError", "no defined output")
\* self[i] with i out of range.
IndexError == Raise("IndexError", "tuple index out of range")
\* list.index(x) with x not in the list.
NotInList == Raise("ValueError", "x is not in list")
\* dict lookup of a missing key.
KeyError == Raise("KeyError", "self")

(***************************************************************************)
(* __init__: validation of the tuple built from the iterable.              *)
(***************************************************************************)
\* int.bit_length()
RECURSIVE bit_length(_)
bit_length(n) == IF n = 0 THEN 0 ELSE 1 + bit_length(n \div 2)

\* all(isinstance(b, int) for b in self)
AllInts(self) == \A i \in 1..Len(self) : IsInt(self[i])

\* all(b in (0, 1) for b in self)
AllBits(self) == \A i \in 1..Len(self) : self[i] \in {PyInt(0), PyInt(1)}

\* The length test of line 193, negated: the lengths that pass; and the same
\* test without `len(self) != 0` (2 ** -1 is 0.5, which no length equals).
LengthOkNoZero(n) == n # 0 /\ n = 2 ^ (bit_length(n) - 1)
LengthOk(n) == ~(n # 0 /\ ~(n = 2 ^ (bit_length(n) - 1)))

\* __init__ with the checks in another order: length, value, type.
initLengthFirst(self) ==
    IF ~LengthOk(Len(self)) THEN InvalidLength
    ELSE IF ~AllBits(self) THEN InvalidElementValue
    ELSE IF ~AllInts(self) THEN InvalidElementType
    ELSE Return(self)

\* __init__ without the check of the values of the elements.
initNoValueCheck(self) ==
    IF ~AllInts(self) THEN InvalidElementType
    ELSE IF ~LengthOk(Len(self)) THEN InvalidLength
    ELSE Return(self)

\* logical(iterable): the outcome of construction, given self = tuple(iterable).
init(self) ==
    IF ~AllInts(self) THEN InvalidElementType
    ELSE IF ~AllBits(self) THEN InvalidElementValue
    ELSE IF ~LengthOk(Len(self)) THEN InvalidLength
    ELSE Return(self)

(***************************************************************************)
(* arity()                                                                 *)
(***************************************************************************)
\* int(math.log2(n)) for n >= 1.
RECURSIVE log2(_)
log2(n) == IF n <= 1 THEN 0 ELSE 1 + log2(n \div 2)

arityBitLength(self) == IF Len(self) = 0 THEN 0 ELSE bit_length(Len(self))
arity(self) == IF Len(self) = 0 THEN 0 ELSE log2(Len(self))

(***************************************************************************)
(* __call__                                                                *)
(***************************************************************************)
\* self[-1 - i]: the item counted from the end.
GetItemFromEnd(self, i) ==
    IF i < Len(self) THEN Return(self[Len(self) - i]) ELSE IndexError

\* self[i] for a Python (0-based) index i >= 0.
GetItem(self, i) == IF i < Len(self) THEN Return(self[i + 1]) ELSE IndexError

\* list.index(x): the 0-based position of the first item equal to x, or -1
\* when there is none (where Python raises ValueError).
index(list, x) ==
    LET found == {i \in 1..Len(list) : list[i] = x}
    IN  IF found = {} THEN -1
        ELSE (CHOOSE i \in found : \A j \in found : i <= j) - 1

\* list(itertools.product(*[(0, 1)] * n)): the rows of n bits, the rightmost
\* position advancing fastest.
RECURSIVE productLeftFastest(_)
productLeftFastest(n) ==
    IF n = 0 THEN << <<>> >>
    ELSE LET P == productLeftFastest(n - 1)
         IN  [k \in 1..(2 * Len(P)) |->
                <<PyInt((k - 1) % 2)>> \o P[(k + 1) \div 2]]
RECURSIVE product(_)
product(n) ==
    IF n = 0 THEN << <<>> >>
    ELSE LET P == product(n - 1)
         IN  [k \in 1..(2 * Len(P)) |->
                Append(P[(k + 1) \div 2], PyInt((k - 1) % 2))]

\* Lines 261-262 without the conversion to a tuple (as in src/logical/logical.py
\* lines 178-179): a one-shot iterator is exhausted by the first traversal.
resolveNoTuple(arguments) ==
    IF Len(arguments) = 1 /\ IsIterable(arguments[1])
    THEN IF arguments[1].type = "iterator" THEN <<>> ELSE ToTuple(arguments[1])
    ELSE arguments

\* Lines 261-262: a lone iterable argument is the whole input row.
resolve(arguments) ==
    IF Len(arguments) = 1 /\ IsIterable(arguments[1])
    THEN ToTuple(arguments[1])
    ELSE arguments

\* Line 270, and the same test never firing.
undefinedNever(self) == FALSE
undefined(self) == Len(self) = 0

\* Lines 264-271 with the test for the undefined operator first.
checksUndefinedFirst(self, arguments) ==
    IF undefined(self) THEN UndefinedOperator
    ELSE IF ~AllInts(arguments) THEN InvalidArgumentType
    ELSE IF ~AllBits(arguments) THEN InvalidArgumentValue
    ELSE Return(arguments)

\* Lines 264-271: the checks that precede the lookup.
checks(self, arguments) ==
    IF ~AllInts(arguments) THEN InvalidArgumentType
    ELSE IF ~AllBits(arguments) THEN InvalidArgumentValue
    ELSE IF undefined(self) THEN UndefinedOperator
    ELSE Return(arguments)

\* The lookup that enumerates the rows of len(arguments) inputs.
lookupRowsOfLen(self, arguments) ==
    IF Len(arguments) = 0 THEN GetItem(self, 0)
    ELSE IF Len(arguments) = 1
    THEN GetItem(self, index(<<PyInt(0), PyInt(1)>>, arguments[1]))
    ELSE IF Len(arguments) = 2
    THEN GetItem(self, index(<<T(<<0, 0>>), T(<<0, 1>>), T(<<1, 0>>), T(<<1, 1>>)>>,
                             arguments))
    ELSE LET inputs == product(Len(arguments))
             i == index(inputs, arguments)
         IN  IF i < 0 THEN NotInList ELSE GetItem(self, i)

\* Lines 273-283: the lookup, for resolved and validated arguments.
lookup(self, arguments) ==
    IF Len(arguments) = 0 THEN GetItem(self, 0)
    ELSE IF Len(arguments) = 1
    THEN GetItem(self, index(<<PyInt(0), PyInt(1)>>, arguments[1]))
    ELSE IF Len(arguments) = 2
    THEN GetItem(self, index(<<T(<<0, 0>>), T(<<0, 1>>), T(<<1, 0>>), T(<<1, 1>>)>>,
                             arguments))
    ELSE LET inputs == product(arity(self))
             i == index(inputs, arguments)
         IN  IF i < 0 THEN NotInList ELSE GetItem(self, i)

\* self(*arguments)
call(self, arguments) ==
    LET row == resolve(arguments)
        checked == checks(self, row)
    IN  IF checked.kind = "raise" THEN checked ELSE lookup(self, row)

(***************************************************************************)
(* Equality, inherited from tuple.                                         *)
(***************************************************************************)
\* The positions, within the shorter of a and b, where the items differ.
Differ(a, b) ==
    {i \in 1..(IF Len(a) < Len(b) THEN Len(a) ELSE Len(b)) : a[i] # b[i]}

\* Equality that compares the common prefix only.
eqPrefix(a, b) == Differ(a, b) = {}

\* a == b for tuples: no item of the common prefix differs and the lengths
\* are equal.
eq(a, b) == IF Differ(a, b) # {} THEN FALSE ELSE Len(a) = Len(b)

(***************************************************************************)
(* The class `logical` with its attributes names, nullary, unary, binary   *)
(* and every.                                                              *)
(***************************************************************************)
VARIABLE logical

(***************************************************************************)
(* name()                                                                  *)
(***************************************************************************)
\* The dictionary literal of lines 121-145: the pairs of a truth table and its
\* name.
namesLiteral == {
    <<T(<<>>), "undef">>,
    <<T(<<0>>), "nf">>,
    <<T(<<1>>), "nt">>,
    <<T(<<0, 0>>), "uf">>,
    <<T(<<0, 1>>), "id">>,
    <<T(<<1, 0>>), "not">>,
    <<T(<<1, 1>>), "ut">>,
    <<T(<<0, 0, 0, 0>>), "bf">>,
    <<T(<<0, 0, 0, 1>>), "and">>,
    <<T(<<0, 0, 1, 0>>), "nimp">>,
    <<T(<<0, 0, 1, 1>>), "fst">>,
    <<T(<<0, 1, 0, 0>>), "nif">>,
    <<T(<<0, 1, 0, 1>>), "snd">>,
    <<T(<<0, 1, 1, 0>>), "xor">>,
    <<T(<<0, 1, 1, 1>>), "or">>,
    <<T(<<1, 0, 0, 0>>), "nor">>,
    <<T(<<1, 0, 0, 1>>), "xnor">>,
    <<T(<<1, 0, 1, 0>>), "nsnd">>,
    <<T(<<1, 0, 1, 1>>), "if">>,
    <<T(<<1, 1, 0, 0>>), "nfst">>,
    <<T(<<1, 1, 0, 1>>), "imp">>,
    <<T(<<1, 1, 1, 0>>), "nand">>,
    <<T(<<1, 1, 1, 1>>), "bt">>
}

\* The dictionary with the name of (0,) repeated for (1,).
namesRepeated ==
    (namesLiteral \ {<<T(<<1>>), "nt">>}) \cup {<<T(<<1>>), "nf">>}

\* The dictionary assigned to logical.names in the class body.
names == namesLiteral

\* dict(logical.names)[self] over a table without the entry for the empty tuple
\* (the table of src/logical/logical.py lines 96-119).
nameNoUndef(self) ==
    IF \E e \in logical.names : e[1] = self /\ e[1] # <<>>
    THEN Return((CHOOSE e \in logical.names : e[1] = self)[2])
    ELSE KeyError

\* dict(logical.names)[self]
name(self) ==
    IF \E e \in logical.names : e[1] = self
    THEN Return((CHOOSE e \in logical.names : e[1] = self)[2])
    ELSE KeyError

(***************************************************************************)
(* _to_ast and compiled()                                                  *)
(***************************************************************************)
\* ast.Constant(value=v)
Constant(v) == [node |-> "Constant", value |-> v]

\* ast.IfExp(test=(x<index> == 0), body=body, orelse=orelse)
IfExp(i, body, orelse) ==
    [node |-> "IfExp", index |-> i, body |-> body, orelse |-> orelse]

\* The recursion that never returns: RecursionError.
Diverges == [node |-> "RecursionError"]

\* self[lower: upper]
Slice(self, lower, upper) == SubSeq(self, lower + 1, upper)

\* _to_ast with the two halves exchanged.
RECURSIVE to_astSwapped(_, _, _, _)
to_astSwapped(self, i, lower, upper) ==
    IF lower = upper THEN Diverges
    ELSE IF lower = upper - 1 \/ Cardinality(Items(Slice(self, lower, upper))) = 1
    THEN Constant(Slice(self, lower, upper)[1])
    ELSE IfExp(i,
               to_astSwapped(self, i + 1, lower + ((upper - lower) \div 2), upper),
               to_astSwapped(self, i + 1, lower, upper - ((upper - lower) \div 2)))

\* _to_ast with the base case of a range of length 1 only.
RECURSIVE to_astNoShortCircuit(_, _, _, _)
to_astNoShortCircuit(self, i, lower, upper) ==
    IF lower = upper THEN Diverges
    ELSE IF lower = upper - 1
    THEN Constant(Slice(self, lower, upper)[1])
    ELSE IfExp(i,
               to_astNoShortCircuit(self, i + 1, lower, upper - ((upper - lower) \div 2)),
               to_astNoShortCircuit(self, i + 1, lower + ((upper - lower) \div 2), upper))

\* _to_ast that passes its own index to the recursive calls.
RECURSIVE to_astSameIndex(_, _, _, _)
to_astSameIndex(self, i, lower, upper) ==
    IF lower = upper THEN Diverges
    ELSE IF lower = upper - 1 \/ Cardinality(Items(Slice(self, lower, upper))) = 1
    THEN Constant(Slice(self, lower, upper)[1])
    ELSE IfExp(i,
               to_astSameIndex(self, i, lower, upper - ((upper - lower) \div 2)),
               to_astSameIndex(self, i, lower + ((upper - lower) \div 2), upper))

\* self._to_ast(index, lower, upper).  On an empty range neither base case
\* holds and both recursive calls are made on the same empty range, so the
\* recursion never returns.
RECURSIVE to_ast(_, _, _, _)
to_ast(self, i, lower, upper) ==
    IF lower = upper THEN Diverges
    ELSE IF lower = upper - 1 \/ Cardinality(Items(Slice(self, lower, upper))) = 1
    THEN Constant(Slice(self, lower, upper)[1])
    ELSE IfExp(i,
               to_ast(self, i + 1, lower, upper - ((upper - lower) \div 2)),
               to_ast(self, i + 1, lower + ((upper - lower) \div 2), upper))

RecursionError == Raise("RecursionError", "maximum recursion depth exceeded")

\* compiled() that starts _to_ast at index 1.
compiledFromOne(self) ==
    LET tree == to_ast(self, 1, 0, Len(self))
    IN  IF tree = Diverges THEN RecursionError
        ELSE Return([tuple |-> self,
                     function |-> [params |-> arity(self), body |-> tree]])

\* self.compiled(): a new instance with the tuple of self and the attribute
\* `function`, the function of arity() parameters that returns the expression
\* of _to_ast.
compiled(self) ==
    LET tree == to_ast(self, 0, 0, Len(self))
    IN  IF tree = Diverges THEN RecursionError
        ELSE Return([tuple |-> self,
                     function |-> [params |-> arity(self), body |-> tree]])

\* The expression with the test x<index> == 1 for the orelse branch.
RECURSIVE EvalTestsOne(_, _)
EvalTestsOne(tree, xs) ==
    IF tree.node = "Constant" THEN Return(tree.value)
    ELSE IF tree.index >= Len(xs) THEN Raise("NameError", "name is not defined")
    ELSE IF IsInt(xs[tree.index + 1]) /\ xs[tree.index + 1].value = 1
    THEN EvalTestsOne(tree.orelse, xs)
    ELSE EvalTestsOne(tree.body, xs)

\* The value of the expression `tree` with x0, x1, ... bound to xs.
RECURSIVE Eval(_, _)
Eval(tree, xs) ==
    IF tree.node = "Constant" THEN Return(tree.value)
    ELSE IF tree.index >= Len(xs) THEN Raise("NameError", "name is not defined")
    ELSE IF IsInt(xs[tree.index + 1]) /\ xs[tree.index + 1].value = 0 THEN Eval(tree.body, xs)
    ELSE Eval(tree.orelse, xs)

\* instance.function(*arguments)
function(instance, arguments) ==
    IF Len(arguments) # instance.function.params
    THEN Raise("TypeError", "function() takes a different number of arguments")
    ELSE Eval(instance.function.body, arguments)

(***************************************************************************)
(* The rest of the state: the operator the caller holds (self) with its    *)
(* attribute dictionary (selfdict, self.__dict__), and the caller's last   *)
(* operation (op) with its input and its outcome.  The caller is "ready"   *)
(* between operations: it starts one operation at a time and takes the     *)
(* outcome before it starts the next.                                      *)
(***************************************************************************)
VARIABLES self, selfdict, op, args, result, threads

vars == <<logical, self, selfdict, op, args, result, threads>>

\* logical.undef_ = logical(()), the first instance made at module load.
undef_ == T(<<>>)

\* The named class constants: the pairs of an attribute of the class and the
\* tuple it is constructed from.
constants == {
    <<"undef_", T(<<>>)>>,
    <<"nf_", T(<<0>>)>>,
    <<"nt_", T(<<1>>)>>,
    <<"uf_", T(<<0, 0>>)>>,
    <<"id_", T(<<0, 1>>)>>,
    <<"not_", T(<<1, 0>>)>>,
    <<"ut_", T(<<1, 1>>)>>,
    <<"bf_", T(<<0, 0, 0, 0>>)>>,
    <<"and_", T(<<0, 0, 0, 1>>)>>,
    <<"nimp_", T(<<0, 0, 1, 0>>)>>,
    <<"fst_", T(<<0, 0, 1, 1>>)>>,
    <<"nif_", T(<<0, 1, 0, 0>>)>>,
    <<"snd_", T(<<0, 1, 0, 1>>)>>,
    <<"xor_", T(<<0, 1, 1, 0>>)>>,
    <<"or_", T(<<0, 1, 1, 1>>)>>,
    <<"nor_", T(<<1, 0, 0, 0>>)>>,
    <<"xnor_", T(<<1, 0, 0, 1>>)>>,
    <<"nsnd_", T(<<1, 0, 1, 0>>)>>,
    <<"if_", T(<<1, 0, 1, 1>>)>>,
    <<"nfst_", T(<<1, 1, 0, 0>>)>>,
    <<"imp_", T(<<1, 1, 0, 1>>)>>,
    <<"nand_", T(<<1, 1, 1, 0>>)>>,
    <<"bt_", T(<<1, 1, 1, 1>>)>>
}

\* logical.<attribute>, for a named class constant.
Attr(a) == (CHOOSE c \in constants : c[1] = a)[2]

\* frozenset(items): the set of the items, equal items counted once.
frozenset(items) == Items(items)

\* The containers of all operators, as populated at module load.
nullary == frozenset(<<Attr("nf_"), Attr("nt_")>>)
unary == frozenset(<<Attr("uf_"), Attr("id_"), Attr("not_"), Attr("ut_")>>)
binaryNoBt == frozenset(<<
    Attr("bf_"),
    Attr("and_"), Attr("nimp_"), Attr("fst_"), Attr("nif_"), Attr("snd_"),
    Attr("xor_"), Attr("or_"),
    Attr("nor_"), Attr("xnor_"), Attr("nsnd_"), Attr("if_"), Attr("nfst_"),
    Attr("imp_"), Attr("nand_")
>>)
binary == frozenset(<<
    Attr("bf_"),
    Attr("and_"), Attr("nimp_"), Attr("fst_"), Attr("nif_"), Attr("snd_"),
    Attr("xor_"), Attr("or_"),
    Attr("nor_"), Attr("xnor_"), Attr("nsnd_"), Attr("if_"), Attr("nfst_"),
    Attr("imp_"), Attr("nand_"),
    Attr("bt_")
>>)
every == frozenset(<<>>) \cup nullary \cup unary \cup binary

\* The class after module load.
Loaded ==
    [names |-> names, nullary |-> nullary, unary |-> unary, binary |-> binary,
     every |-> every]

Bit == {PyInt(0), PyInt(1)}
Elems == {PyInt(0), PyInt(1), PyInt(2), PyStr("a")}

\* The iterables handed to the constructor.
Iterables == BoundedSeq(Bit, MaxLen) \cup BoundedSeq(Elems, MaxMixedLen)

\* The input rows of a call.
Rows == BoundedSeq(Bit, MaxArgs) \cup BoundedSeq(Elems, MaxMixedArgs)

\* The argument tuples of a call: the row as individual arguments, or as one
\* list, tuple or iterator.
Arguments ==
    Rows \cup {<<PyColl(kind, r)>> : kind \in {"list", "tuple", "iterator"}, r \in Rows}

\* None, the outcome held while no operation has returned.
None == [kind |-> "none"]

\* The threads, and a thread that is in no operation.
Threads == 1..NumThreads
Idle == [pc |-> "ready", op |-> "none", args |-> <<>>, local |-> <<>>, result |-> None]

Init ==
    /\ logical = Loaded
    /\ self = undef_
    /\ selfdict = {}
    /\ op = "ready"
    /\ args = <<>>
    /\ result = None
    /\ threads = [t \in Threads |-> Idle]

\* self = logical(iterable): a new instance, whose attribute dictionary is
\* empty; a raised exception leaves the caller's operator.
Construct ==
    \E iterable \in Iterables :
        LET r == init(iterable)
        IN  /\ op = "ready"
            /\ op' = "logical"
            /\ args' = iterable
            /\ result' = r
            /\ self' = IF r.kind = "return" THEN r.value ELSE self
            /\ selfdict' = IF r.kind = "return" THEN {} ELSE selfdict
            /\ UNCHANGED <<logical, threads>>

\* self(*arguments)
Call ==
    \E arguments \in Arguments :
        /\ op = "ready"
        /\ op' = "__call__"
        /\ args' = arguments
        /\ result' = call(self, arguments)
        /\ UNCHANGED <<logical, self, selfdict, threads>>

\* self.arity()
Arity ==
    /\ op = "ready"
    /\ op' = "arity"
    /\ args' = <<>>
    /\ result' = Return(arity(self))
    /\ UNCHANGED <<logical, self, selfdict, threads>>

\* self.name()
Name ==
    /\ op = "ready"
    /\ op' = "name"
    /\ args' = <<>>
    /\ result' = name(self)
    /\ UNCHANGED <<logical, self, selfdict, threads>>

\* compiled() that stores the function in the __dict__ of self.
CompiledInPlace ==
    /\ op = "ready"
    /\ op' = "compiled"
    /\ args' = <<>>
    /\ result' = compiled(self)
    /\ selfdict' = IF compiled(self).kind = "return" THEN {"function"} ELSE selfdict
    /\ UNCHANGED <<logical, self, threads>>

\* self.compiled()
Compiled ==
    /\ op = "ready"
    /\ op' = "compiled"
    /\ args' = <<>>
    /\ result' = compiled(self)
    /\ UNCHANGED <<logical, self, selfdict, threads>>

\* (self.compiled()).function(*arguments)
Function ==
    LET c == compiled(self)
    IN  \E arguments \in Rows :
            /\ op = "ready"
            /\ op' = "function"
            /\ args' = arguments
            /\ result' = IF c.kind = "raise" THEN c ELSE function(c.value, arguments)
            /\ UNCHANGED <<logical, self, selfdict, threads>>

\* The operators self is compared with: the class constants, the operator of
\* the doctests and a neighbour of it.
Others ==
    logical.every \cup {undef_, T(<<1, 0, 0, 1, 0, 1, 0, 1>>), T(<<1, 0, 0, 1, 0, 1, 0, 0>>)}

\* self == other
Equals ==
    \E other \in Others :
        /\ op = "ready"
        /\ op' = "__eq__"
        /\ args' = <<other>>
        /\ result' = Return(eq(self, other))
        /\ UNCHANGED <<logical, self, selfdict, threads>>

\* logical(self): a new instance constructed from the caller's operator.
Copy ==
    /\ op = "ready"
    /\ op' = "logical(self)"
    /\ args' = <<>>
    /\ result' = init(self)
    /\ UNCHANGED <<logical, self, selfdict, threads>>

\* The caller takes the outcome and is ready for the next operation.
Continue ==
    /\ op # "ready"
    /\ op' = "ready"
    /\ args' = <<>>
    /\ result' = None
    /\ UNCHANGED <<logical, self, selfdict, threads>>

Next ==
    \/ Construct
    \/ Call
    \/ Arity
    \/ Name
    \/ Compiled
    \/ Function
    \/ Equals
    \/ Copy
    \/ Continue

Spec == Init /\ [][Next]_vars

(***************************************************************************)
(* Exhaustive evaluation: the caller holds any operator of arity at most   *)
(* MaxArity, and applies it (SpecCall), or the function of its compiled    *)
(* instance (SpecFunction), to a row of arity() bits given as individual   *)
(* arguments.                                                              *)
(***************************************************************************)
\* The truth tables of arity n: the tuples of 2^n bits.
Tables(n) == [1..(2 ^ n) -> Bit]

InitTables ==
    /\ logical = Loaded
    /\ self \in UNION {Tables(n) : n \in 0..MaxArity}
    /\ init(self).kind = "return"
    /\ selfdict = {}
    /\ op = "ready"
    /\ args = <<>>
    /\ result = None
    /\ threads = [t \in Threads |-> Idle]

\* self(*arguments) on a row of arity() bits.
CallRow ==
    \E arguments \in [1..arity(self) -> Bit] :
        /\ op = "ready"
        /\ op' = "__call__"
        /\ args' = arguments
        /\ result' = call(self, arguments)
        /\ UNCHANGED <<logical, self, selfdict, threads>>

\* instance = self.compiled()
CompiledTable ==
    /\ op = "ready"
    /\ op' = "compiled"
    /\ args' = <<>>
    /\ result' = compiled(self)
    /\ UNCHANGED <<logical, self, selfdict, threads>>

\* instance.function(*arguments) on a row of arity() bits, for the instance
\* that compiled() returned.
FunctionRow ==
    \E arguments \in [1..arity(self) -> Bit] :
        /\ op = "compiled"
        /\ result.kind = "return"
        /\ op' = "function"
        /\ args' = arguments
        /\ result' = function(result.value, arguments)
        /\ UNCHANGED <<logical, self, selfdict, threads>>

NextFunction == CompiledTable \/ FunctionRow

\* Ordinary evaluation of every operator on every row of its arity.
SpecCall == InitTables /\ [][CallRow]_vars

\* Compiled evaluation of every operator on every row of its arity.
SpecFunction == InitTables /\ [][NextFunction]_vars

(***************************************************************************)
(* Calls with three or more inputs, on operators of every arity up to      *)
(* MaxArity.                                                               *)
(***************************************************************************)
\* The operators: every truth table of an arity below MaxArity and, of arity
\* MaxArity, the tables whose two halves are the same table.
LongRowOperators ==
    UNION {Tables(n) : n \in 0..(MaxArity - 1)}
        \cup {t \o t : t \in Tables(MaxArity - 1)}

\* The rows of three or more bits.
LongRows == {r \in BoundedSeq(Bit, MaxLongArgs) : Len(r) >= 3}

InitLongRows ==
    /\ logical = Loaded
    /\ self \in LongRowOperators
    /\ init(self).kind = "return"
    /\ selfdict = {}
    /\ op = "ready"
    /\ args = <<>>
    /\ result = None
    /\ threads = [t \in Threads |-> Idle]

\* self(*arguments) on three or more bits, as individual arguments or as one
\* list.
CallLongRow ==
    \E row \in LongRows :
        \E arguments \in {row, <<PyColl("list", row)>>} :
            /\ op = "ready"
            /\ op' = "__call__"
            /\ args' = arguments
            /\ result' = call(self, arguments)
            /\ UNCHANGED <<logical, self, selfdict, threads>>

\* Calls with three or more inputs.
SpecLongRows == InitLongRows /\ [][CallLongRow]_vars

(***************************************************************************)
(* Threads that use one operator at the same time.  A step of a thread is  *)
(* one read of the shared objects (self, the class logical) followed by    *)
(* the work on the thread's own values.                                    *)
(***************************************************************************)
\* The operators the threads share and the arguments of their calls.
ThreadOperators == every \cup {undef_, T(<<1, 0, 0, 1, 0, 1, 0, 1>>)}
ThreadArguments == BoundedSeq(Bit, MaxThreadArgs) \cup {<<PyInt(2)>>, <<PyStr("a")>>}

InitThreads ==
    /\ logical = Loaded
    /\ self \in ThreadOperators
    /\ selfdict = {}
    /\ op = "ready"
    /\ args = <<>>
    /\ result = None
    /\ threads = [t \in Threads |-> Idle]

\* The thread goes to pc with the local value and the outcome given.
Goto(t, pc, local, outcome) ==
    threads' = [threads EXCEPT ![t].pc = pc, ![t].local = local, ![t].result = outcome]

\* d[key] for a dictionary given as its set of items.
getitem(d, key) ==
    IF \E e \in d : e[1] = key
    THEN Return((CHOOSE e \in d : e[1] = key)[2])
    ELSE KeyError

\* A thread calls self(*arguments), self.name(), self.arity() or
\* self.compiled().
Begin(t) ==
    \E o \in {"__call__", "name", "arity", "compiled"} :
        \E arguments \in IF o = "__call__" THEN ThreadArguments ELSE {<<>>} :
            /\ threads[t].pc = "ready"
            /\ threads' = [threads EXCEPT ![t] =
                              [pc |-> o, op |-> o, args |-> arguments,
                               local |-> <<>>, result |-> None]]
            /\ UNCHANGED <<logical, self, selfdict, op, args, result>>

\* __call__, lines 261-271: the checks, which read len(self).
CallChecks(t) ==
    LET row == resolve(threads[t].args)
        checked == checks(self, row)
    IN  /\ threads[t].pc = "__call__"
        /\ IF checked.kind = "raise"
           THEN Goto(t, "done", row, checked)
           ELSE Goto(t, "lookup", row, None)
        /\ UNCHANGED <<logical, self, selfdict, op, args, result>>

\* __call__, lines 273-283: the lookup, which reads the items of self.
CallLookup(t) ==
    /\ threads[t].pc = "lookup"
    /\ Goto(t, "done", threads[t].local, lookup(self, threads[t].local))
    /\ UNCHANGED <<logical, self, selfdict, op, args, result>>

\* name(): dict(logical.names), a copy of the class attribute.
NameDict(t) ==
    /\ threads[t].pc = "name"
    /\ Goto(t, "getitem", logical.names, None)
    /\ UNCHANGED <<logical, self, selfdict, op, args, result>>

\* name(): the item of the copy at self.
NameGetItem(t) ==
    /\ threads[t].pc = "getitem"
    /\ Goto(t, "done", threads[t].local, getitem(threads[t].local, self))
    /\ UNCHANGED <<logical, self, selfdict, op, args, result>>

\* arity(): reads len(self).
ArityLen(t) ==
    /\ threads[t].pc = "arity"
    /\ Goto(t, "done", <<>>, Return(arity(self)))
    /\ UNCHANGED <<logical, self, selfdict, op, args, result>>

\* compiled(), line 352: instance = logical(self), with an empty __dict__.
CompiledInstance(t) ==
    /\ threads[t].pc = "compiled"
    /\ Goto(t, "_to_ast", [tuple |-> init(self).value, dict |-> {}], None)
    /\ UNCHANGED <<logical, self, selfdict, op, args, result>>

\* compiled(), lines 353-366: the function definition, from self.arity() and
\* self._to_ast().
CompiledToAst(t) ==
    LET tree == to_ast(self, 0, 0, Len(self))
    IN  /\ threads[t].pc = "_to_ast"
        /\ IF tree = Diverges
           THEN Goto(t, "done", threads[t].local, RecursionError)
           ELSE Goto(t, "exec",
                     [tuple |-> threads[t].local.tuple,
                      dict |-> threads[t].local.dict,
                      function |-> [params |-> arity(self), body |-> tree]],
                     None)
        /\ UNCHANGED <<logical, self, selfdict, op, args, result>>

\* compiled() executing the function definition in self.__dict__.
CompiledExecInSelf(t) ==
    /\ threads[t].pc = "exec"
    /\ Goto(t, "done", threads[t].local,
            Return([tuple |-> threads[t].local.tuple,
                    function |-> threads[t].local.function]))
    /\ selfdict' = selfdict \cup {"function"}
    /\ UNCHANGED <<logical, self, op, args, result>>

\* compiled(), lines 370-375: the function definition is executed in
\* instance.__dict__ and the instance is returned.
CompiledExec(t) ==
    /\ threads[t].pc = "exec"
    /\ Goto(t, "done", threads[t].local,
            Return([tuple |-> threads[t].local.tuple,
                    function |-> threads[t].local.function]))
    /\ UNCHANGED <<logical, self, selfdict, op, args, result>>

\* The caller in the thread takes the outcome.
Finish(t) ==
    /\ threads[t].pc = "done"
    /\ threads' = [threads EXCEPT ![t] = Idle]
    /\ UNCHANGED <<logical, self, selfdict, op, args, result>>

NextThreads ==
    \E t \in Threads :
        \/ Begin(t)
        \/ CallChecks(t)
        \/ CallLookup(t)
        \/ NameDict(t)
        \/ NameGetItem(t)
        \/ ArityLen(t)
        \/ CompiledInstance(t)
        \/ CompiledToAst(t)
        \/ CompiledExec(t)
        \/ Finish(t)

\* Threads interleaving their calls on one operator.
SpecThreads == InitThreads /\ [][NextThreads]_vars

(***************************************************************************)
(* Properties.                                                             *)
(***************************************************************************)
\* Every item is an integer that is 0 or 1.
IsBitSeq(s) == \A i \in 1..Len(s) : s[i].type = "int" /\ s[i].value \in {0, 1}

\* The row read as a base-2 number, the first input most significant.
RECURSIVE BinVal(_)
BinVal(r) ==
    IF Len(r) = 0 THEN 0
    ELSE 2 * BinVal(SubSeq(r, 1, Len(r) - 1)) + r[Len(r)].value

\* n is an exact power of two.
IsPow2(n) == \E k \in 0..n : 2 ^ k = n

\* The argument tuple is one list, tuple or iterator.
IsLoneCollection(a) == Len(a) = 1 /\ a[1].type \in {"list", "tuple", "iterator"}

\* The input row an argument tuple stands for.
RowOf(a) == IF IsLoneCollection(a) THEN a[1].value ELSE a

\* The truth table of the doctests of __call__ and compiled().
Doctest3 == T(<<1, 0, 0, 1, 0, 1, 0, 1>>)

\* C1: an operator of length 2^n applied to n individual bits returns its
\* bit at the index equal to the row read as a base-2 number, the first input
\* most significant.
RowIndexRule ==
    (op = "__call__" /\ IsBitSeq(args) /\ Len(self) = 2 ^ Len(args))
        => result = Return(self[BinVal(args) + 1])

RowIndexRuleWitness ==
    /\ op = "__call__"
    /\ self = Doctest3
    /\ args = T(<<1, 1, 0>>)
    /\ result = Return(PyInt(0))

\* C2: on every row of arity() bits, the function built by compiled() returns
\* the bit that ordinary evaluation returns.
SpecializationEquivalence ==
    (op = "function" /\ IsBitSeq(args) /\ Len(self) = 2 ^ Len(args))
        => /\ result.kind = "return"
           /\ result = call(self, args)

SpecializationEquivalenceWitness ==
    /\ op = "function"
    /\ self = Doctest3
    /\ args = T(<<1, 1, 0>>)
    /\ result = Return(PyInt(0))

\* C3: construction succeeds exactly when every element is an integer that is
\* 0 or 1 and the length is 0 or a power of two; the empty sequence gives an
\* operator of arity 0, and 0/1 sequences of length 3, 5, 6, 7 raise
\* InvalidLength.
ConstructionAccepts ==
    op = "logical" =>
        /\ result.kind = "return"
              <=> (IsBitSeq(args) /\ (Len(args) = 0 \/ IsPow2(Len(args))))
        /\ result.kind = "return" => (result.value = args /\ self = args)
        /\ args = <<>> => (result.kind = "return" /\ arity(self) = 0)
        /\ (IsBitSeq(args) /\ Len(args) \in {3, 5, 6, 7}) => result = InvalidLength

ConstructionAcceptsWitness ==
    /\ op = "logical"
    /\ args = T(<<1, 0, 1>>)
    /\ result = InvalidLength

\* C4: construction checks the types, then the values, then the length, and
\* the first failing check determines the exception.
ValidationOrder ==
    op = "logical" =>
        /\ (\E i \in 1..Len(args) : args[i].type # "int")
              => result = InvalidElementType
        /\ ((\A i \in 1..Len(args) : args[i].type = "int") /\ ~IsBitSeq(args))
              => result = InvalidElementValue
        /\ result = InvalidLength
              => (IsBitSeq(args) /\ Len(args) # 0 /\ ~IsPow2(Len(args)))

ValidationOrderWitness ==
    /\ op = "logical"
    /\ args = <<PyStr("a"), PyInt(2), PyInt(0)>>
    /\ result = InvalidElementType

\* C5: a call with valid 0/1 inputs whose number differs from the arity of an
\* operator of nonzero length raises an exception and returns no bit.
ArityMustMatch ==
    (op = "__call__" /\ IsBitSeq(args) /\ Len(self) >= 1 /\ Len(self) # 2 ^ Len(args))
        => result.kind = "raise"

\* C6: the zero-length operator raises UndefinedOperator on every row of 0/1
\* bits, the empty row included.
UndefinedAlwaysSignals ==
    (op = "__call__" /\ Len(self) = 0 /\ IsBitSeq(RowOf(args)))
        => result = UndefinedOperator

UndefinedAlwaysSignalsWitness ==
    /\ op = "__call__"
    /\ self = <<>>
    /\ args = <<>>
    /\ result = UndefinedOperator

\* C7: a row with a non-integer raises InvalidArgumentType, and otherwise a
\* row with an integer outside {0, 1} raises InvalidArgumentValue, on every
\* operator, before the undefined-operator check and before the lookup.
ArgumentChecksFirst ==
    op = "__call__" =>
        LET row == RowOf(args)
        IN  /\ (\E i \in 1..Len(row) : row[i].type # "int")
                  => result = InvalidArgumentType
            /\ ((\A i \in 1..Len(row) : row[i].type = "int") /\ ~IsBitSeq(row))
                  => result = InvalidArgumentValue

ArgumentChecksFirstWitness ==
    /\ op = "__call__"
    /\ self = <<>>
    /\ args = <<PyInt(2)>>
    /\ result = InvalidArgumentValue

\* C8: a call with a row of 0/1 bits as one list, tuple or iterator has the
\* outcome of the call with the elements of the row as individual arguments.
LoneIterableIsRow ==
    (op = "__call__" /\ IsLoneCollection(args) /\ IsBitSeq(args[1].value))
        => result = call(self, args[1].value)

LoneIterableIsRowWitness ==
    /\ op = "__call__"
    /\ self = Doctest3
    /\ args = <<PyColl("iterator", T(<<1, 1, 0>>))>>
    /\ result = Return(PyInt(0))

\* C9: arity() returns the n with length = 2^n, and 0 for the lengths 0 and 1.
ArityIsLog2 ==
    op = "arity" =>
        /\ result.kind = "return"
        /\ Len(self) \in {0, 1} => result.value = 0
        /\ Len(self) # 0 => 2 ^ result.value = Len(self)

ArityIsLog2Witness ==
    /\ op = "arity"
    /\ Len(self) = 8
    /\ result = Return(3)

\* The tuples of the 22 canonical operators: 2 nullary, 4 unary, 16 binary.
Canonical22 == {e[2] : e \in {c \in constants : Len(c[2]) \in {1, 2, 4}}}

\* The class constant name_ is the operator named name.
IsMnemonic(r, t) ==
    r.kind = "return" /\ \E c \in constants : c[2] = t /\ c[1] = r.value \o "_"

\* C10: name() returns the mnemonic of each of the 22 canonical operators and
\* raises UnknownOperator for every other operator.
NameOnlyCanonical22 ==
    op = "name" =>
        /\ self \in Canonical22 => IsMnemonic(result, self)
        /\ self \notin Canonical22 => result = KeyError

\* C10, amended: name() returns the mnemonic of each of the 22 canonical
\* operators, returns 'undef' for the zero-length operator, and raises
\* UnknownOperator for every other operator.
NameCanonical22OrUndef ==
    op = "name" =>
        /\ self \in Canonical22 => IsMnemonic(result, self)
        /\ self = <<>> => result = Return("undef")
        /\ (self \notin Canonical22 /\ self # <<>>) => result = KeyError

NameCanonical22OrUndefWitness ==
    /\ op = "name"
    /\ self = <<>>
    /\ result = Return("undef")

\* The operators that can be constructed, within the bounds.
Operators == {t \in Iterables : init(t).kind = "return"}

\* The operators that have a name.
Named == {t \in Operators : name(t).kind = "return"}

\* The operators of arity n among `named`.
OfArity(named, n) == {t \in named : arity(t) = n}

\* No two operators of the same arity among `named` share a name: each arity
\* has as many names as named operators.
NamesDistinct(named) ==
    \A n \in {arity(t) : t \in named} :
        Cardinality({name(t).value : t \in OfArity(named, n)})
            = Cardinality(OfArity(named, n))

\* C11: exactly 2 operators have arity 0 and a name, exactly 4 have arity 1
\* and a name, exactly 16 have arity 2 and a name, and no two named operators
\* of the same arity share a name.
NameCoverage ==
    op = "name" =>
        LET named == Named
        IN  /\ Cardinality(OfArity(named, 0)) = 2
            /\ Cardinality(OfArity(named, 1)) = 4
            /\ Cardinality(OfArity(named, 2)) = 16
            /\ NamesDistinct(named)

\* C11, amended: exactly 3 operators have arity 0 and a name (the two of
\* length 1 and the zero-length operator, named 'undef'), exactly 4 have
\* arity 1 and a name, exactly 16 have arity 2 and a name, and no two named
\* operators of the same arity share a name.
NameCoverageWithUndef ==
    op = "name" =>
        LET named == Named
        IN  /\ Cardinality(OfArity(named, 0)) = 3
            /\ OfArity(named, 0) = {t \in Operators : Len(t) <= 1}
            /\ Cardinality(OfArity(named, 1)) = 4
            /\ Cardinality(OfArity(named, 2)) = 16
            /\ NamesDistinct(named)

NameCoverageWithUndefWitness ==
    /\ op = "name"
    /\ Len(self) = 0
    /\ result = Return("undef")
    /\ Cardinality(OfArity(Named, 0)) = 3

\* C12: after module load nullary is exactly the 2 bit sequences of length 1,
\* unary exactly the 4 of length 2, binary exactly the 16 of length 4; the
\* three sets are pairwise disjoint, every is their union (22 operators), and
\* the zero-length operator undef_ belongs to none of them.
CatalogExact ==
    /\ logical.nullary = [1..1 -> {PyInt(0), PyInt(1)}]
    /\ logical.unary = [1..2 -> {PyInt(0), PyInt(1)}]
    /\ logical.binary = [1..4 -> {PyInt(0), PyInt(1)}]
    /\ Cardinality(logical.nullary) = 2
    /\ Cardinality(logical.unary) = 4
    /\ Cardinality(logical.binary) = 16
    /\ logical.nullary \cap logical.unary = {}
    /\ logical.nullary \cap logical.binary = {}
    /\ logical.unary \cap logical.binary = {}
    /\ logical.every = logical.nullary \cup logical.unary \cup logical.binary
    /\ Cardinality(logical.every) = 22
    /\ undef_ \notin logical.every
    /\ undef_ \notin logical.nullary \cup logical.unary \cup logical.binary

CatalogExactWitness ==
    /\ op = "__call__"
    /\ self \in logical.binary
    /\ self \in logical.every
    /\ Cardinality(logical.every) = 22
    /\ result.kind = "return"

\* 1 for a true condition and 0 for a false one.
B(b) == IF b THEN 1 ELSE 0

\* The number of inputs of the documented function of a class constant.
DocumentedArity(nm) ==
    IF nm \in {"nf_", "nt_"} THEN 0
    ELSE IF nm \in {"uf_", "id_", "not_", "ut_"} THEN 1
    ELSE 2

\* The documented function of a class constant, on the inputs x (and y).
Documented(nm, r) ==
    LET x == r[1].value
        y == r[2].value
    IN  CASE nm = "nf_" -> 0
          [] nm = "nt_" -> 1
          [] nm = "uf_" -> 0
          [] nm = "id_" -> x
          [] nm = "not_" -> 1 - x
          [] nm = "ut_" -> 1
          [] nm = "bf_" -> 0
          [] nm = "and_" -> B(x = 1 /\ y = 1)
          [] nm = "nimp_" -> B(x > y)
          [] nm = "fst_" -> x
          [] nm = "nif_" -> B(x < y)
          [] nm = "snd_" -> y
          [] nm = "xor_" -> B(x # y)
          [] nm = "or_" -> B(x = 1 \/ y = 1)
          [] nm = "nor_" -> 1 - B(x = 1 \/ y = 1)
          [] nm = "xnor_" -> 1 - B(x # y)
          [] nm = "nsnd_" -> 1 - y
          [] nm = "if_" -> B(x >= y)
          [] nm = "nfst_" -> 1 - x
          [] nm = "imp_" -> B(x <= y)
          [] nm = "nand_" -> 1 - B(x = 1 /\ y = 1)
          [] nm = "bt_" -> 1

\* The 22 class constants with a documented function.
DocumentedNames == {c[1] : c \in constants} \ {"undef_"}

\* C13: each named class constant computes its documented boolean function
\* on every input row.
DocumentedFunctions ==
    (op = "__call__" /\ IsBitSeq(args)) =>
        \A nm \in DocumentedNames :
            (self = Attr(nm) /\ Len(args) = DocumentedArity(nm))
                => result = Return(PyInt(Documented(nm, args)))

DocumentedFunctionsWitness ==
    /\ op = "__call__"
    /\ self = Attr("nand_")
    /\ args = T(<<1, 1>>)
    /\ result = Return(PyInt(0))

\* a and b have the same length and the same bit at every position.
SameBits(a, b) ==
    /\ Len(a) = Len(b)
    /\ \A i \in 1..Len(a) : a[i].value = b[i].value

\* C14: two operators are equal exactly when their bit sequences have the
\* same length and the same bit at every position; constructing an operator
\* from an operator's own bit sequence succeeds and gives an equal operator.
ValueEquality ==
    /\ op = "__eq__" => result = Return(SameBits(self, args[1]))
    /\ op = "logical(self)" =>
          /\ result.kind = "return"
          /\ eq(result.value, self)
          /\ SameBits(result.value, self)

ValueEqualityWitness ==
    /\ op = "__eq__"
    /\ self = T(<<1, 0>>)
    /\ args = <<T(<<0, 1>>)>>
    /\ result = Return(FALSE)

\* C15: for an operator of nonzero length compiled() returns an instance
\* with the bit sequence of self, equal to self, with the arity, the name and
\* the output on every row of self; the function is an attribute of the
\* returned instance only, the __dict__ of self does not gain it.
CompiledIsNewInstance ==
    (op = "compiled" /\ Len(self) > 0) =>
        /\ result.kind = "return"
        /\ SameBits(result.value.tuple, self)
        /\ eq(result.value.tuple, self)
        /\ arity(result.value.tuple) = arity(self)
        /\ name(result.value.tuple) = name(self)
        /\ \A row \in [1..arity(self) -> Bit] :
              call(result.value.tuple, row) = call(self, row)
        /\ "function" \in DOMAIN result.value
        /\ "function" \notin selfdict

CompiledIsNewInstanceWitness ==
    /\ op = "compiled"
    /\ self = T(<<1, 0, 0, 1>>)
    /\ result.kind = "return"
    /\ result.value.tuple = self
    /\ result.value.function.params = 2
    /\ selfdict = {}

\* C16: compiled() on the operator of length 0 signals UndefinedOperator.
CompiledUndefinedRejected ==
    (op = "compiled" /\ Len(self) = 0) => result = UndefinedOperator

\* The errors of the taxonomy, with both errors of a row that does not match
\* the arity.
Taxonomy ==
    {InvalidElementType, InvalidElementValue, InvalidLength,
     InvalidArgumentType, InvalidArgumentValue, IndexError, NotInList,
     UndefinedOperator, KeyError}

\* C18: construction, evaluation, name(), arity() and compiled() either
\* return a result or signal exactly one error of the taxonomy.
ResultOrTaxonomyError ==
    op \in {"logical", "__call__", "name", "arity", "compiled"} =>
        \/ result.kind = "return"
        \/ result.kind = "raise" /\ result \in Taxonomy

\* All bits of bits[lower: upper] are equal.
Uniform(bits, lower, upper) ==
    \A i, j \in (lower + 1)..upper : bits[i].value = bits[j].value

\* The tree built for bits[lower: upper] has a leaf exactly where the range
\* is uniform, with the common bit, and a branch only where the range holds
\* both bits.
RECURSIVE ShortCircuits(_, _, _, _)
ShortCircuits(tree, bits, lower, upper) ==
    IF tree.node = "Constant"
    THEN /\ upper - lower = 1 \/ Uniform(bits, lower, upper)
         /\ tree.value = bits[lower + 1]
    ELSE /\ tree.node = "IfExp"
         /\ upper - lower # 1
         /\ ~Uniform(bits, lower, upper)
         /\ \E i \in (lower + 1)..upper : bits[i].value = 0
         /\ \E i \in (lower + 1)..upper : bits[i].value = 1
         /\ ShortCircuits(tree.body, bits, lower, lower + ((upper - lower) \div 2))
         /\ ShortCircuits(tree.orelse, bits, lower + ((upper - lower) \div 2), upper)

\* C19: in the tree of an operator of nonzero length a range gets a constant
\* leaf exactly when it has length 1 or all its bits are equal, the leaf
\* holds that bit, and a branch is only made for a range with a 0 and a 1; a
\* constant operator compiles to a single leaf.
ShortCircuitLeaves ==
    (op = "compiled" /\ Len(self) > 0) =>
        /\ result.kind = "return"
        /\ ShortCircuits(result.value.function.body, self, 0, Len(self))
        /\ Uniform(self, 0, Len(self)) =>
              result.value.function.body = Constant(self[1])

ShortCircuitLeavesWitness ==
    /\ op = "compiled"
    /\ self = T(<<0, 0, 0, 1>>)
    /\ result.kind = "return"
    /\ result.value.function.body.node = "IfExp"
    /\ result.value.function.body.body = Constant(PyInt(0))
    /\ result.value.function.body.orelse.node = "IfExp"

\* The branches of the tree for bits[lower: upper] at depth d test variable
\* d, and the two children are trees for the two halves of the range, which
\* are of equal size, disjoint and cover the range: every leaf holds the bit
\* of every position of the part of the range that leads to it.
RECURSIVE Halves(_, _, _, _, _)
Halves(tree, bits, d, lower, upper) ==
    IF tree.node = "Constant"
    THEN \A i \in (lower + 1)..upper : bits[i] = tree.value
    ELSE LET mid == lower + ((upper - lower) \div 2)
         IN  /\ tree.node = "IfExp"
             /\ tree.index = d
             /\ lower < mid /\ mid < upper
             /\ mid - lower = upper - mid
             /\ Halves(tree.body, bits, d + 1, lower, mid)
             /\ Halves(tree.orelse, bits, d + 1, mid, upper)

\* C20: a branch at depth d tests input variable d (the root tests x0), its
\* 0-child is built from the lower half of the range of the node and its
\* 1-child from the upper half.
BranchesHalve ==
    (op = "compiled" /\ Len(self) > 0) =>
        /\ result.kind = "return"
        /\ Halves(result.value.function.body, self, 0, 0, Len(self))

BranchesHalveWitness ==
    /\ op = "compiled"
    /\ self = T(<<0, 1, 1, 0, 1, 0, 0, 1>>)
    /\ result.kind = "return"
    /\ result.value.function.body.index = 0
    /\ result.value.function.body.orelse.index = 1
    /\ result.value.function.body.orelse.body.index = 2
    /\ result.value.function.body.orelse.body.orelse = Constant(PyInt(0))

\* The outcome of the operation o of a thread on the arguments a when no
\* other thread runs.
Alone(o, a) ==
    CASE o = "__call__" -> call(self, a)
      [] o = "name" -> name(self)
      [] o = "arity" -> Return(arity(self))
      [] o = "compiled" -> compiled(self)

\* Every call that has returned or raised in a thread has the outcome of the
\* same call run alone.
OutcomesAsAlone ==
    \A t \in Threads :
        threads[t].pc = "done" => threads[t].result = Alone(threads[t].op, threads[t].args)

\* No step changes the bit sequence or the attributes of the operator, the
\* name table or the four sets of the class.
NothingMutated ==
    [][/\ self' = self
       /\ selfdict' = selfdict
       /\ logical'.names = logical.names
       /\ logical'.nullary = logical.nullary
       /\ logical'.unary = logical.unary
       /\ logical'.binary = logical.binary
       /\ logical'.every = logical.every]_vars

\* C17: in every interleaving of calls, name(), arity() and compiled() by
\* several threads, successful or failing, the bit sequence of the operator,
\* the four catalog sets and the name table are unchanged, and every call has
\* the outcome it has when run alone.
ThreadsMutateNothing == []OutcomesAsAlone /\ NothingMutated

\* One thread has returned from compiled() on xnor while the other is between
\* the checks and the lookup of a call on the same operator.
ThreadsMutateNothingWitness ==
    /\ self = T(<<1, 0, 0, 1>>)
    /\ threads[1].pc = "done"
    /\ threads[1].op = "compiled"
    /\ threads[1].result.kind = "return"
    /\ threads[2].pc = "lookup"
    /\ threads[2].args = T(<<1, 1>>)

\* The invariants of the data model: every element is the integer 0 or 1 and
\* the length is 0 or an exact power of two.
WellFormed(bits) ==
    /\ IsBitSeq(bits)
    /\ Len(bits) = 0 \/ IsPow2(Len(bits))

\* C21: every operator that construction or compiled() makes observable has
\* elements that are 0 or 1 and a length that is 0 or a power of two: the
\* operator the caller holds, the instance a construction returns and the
\* instance compiled() returns.
OperatorsWellFormed ==
    /\ WellFormed(self)
    /\ (op \in {"logical", "logical(self)"} /\ result.kind = "return") =>
          WellFormed(result.value)
    /\ (op = "compiled" /\ result.kind = "return") =>
          WellFormed(result.value.tuple)

OperatorsWellFormedWitness ==
    /\ op = "compiled"
    /\ self = T(<<0, 1, 1, 0, 1, 0, 0, 0>>)
    /\ result.kind = "return"
    /\ result.value.tuple = T(<<0, 1, 1, 0, 1, 0, 0, 0>>)

\* The number of nested branches of the tree.
RECURSIVE Depth(_)
Depth(tree) ==
    IF tree.node = "Constant" THEN 0
    ELSE 1 + (IF Depth(tree.body) > Depth(tree.orelse)
              THEN Depth(tree.body) ELSE Depth(tree.orelse))

\* The tree was built at depth d for the size positions of bits after lower,
\* by steps that halve the range: size is 2^(n - d), a branch tests a variable
\* below n and splits its range into two strictly smaller halves, and a leaf
\* holds the bit of every position of its range.
RECURSIVE Halving(_, _, _, _, _, _)
Halving(tree, bits, n, d, lower, size) ==
    /\ d <= n
    /\ size = 2 ^ (n - d)
    /\ IF tree.node = "Constant"
       THEN \A i \in (lower + 1)..(lower + size) : bits[i] = tree.value
       ELSE /\ tree.index < n
            /\ 2 * (size \div 2) = size
            /\ size \div 2 < size
            /\ Halving(tree.body, bits, n, d + 1, lower, size \div 2)
            /\ Halving(tree.orelse, bits, n, d + 1, lower + (size \div 2), size \div 2)

\* C22: for an operator of length 2^n > 0 the construction of the tree
\* returns; every step halves the range, a range at depth d has size
\* 2^(n - d), the depth is at most n and every variable tested is below n, so
\* the function of n parameters never reads an undeclared input.
TreeConstructionTerminates ==
    /\ (op = "compiled" /\ Len(self) > 0) =>
          /\ result.kind = "return"
          /\ Len(self) = 2 ^ result.value.function.params
          /\ Depth(result.value.function.body) <= result.value.function.params
          /\ Halving(result.value.function.body, self,
                     result.value.function.params, 0, 0, Len(self))
    /\ (op = "function" /\ Len(self) > 0 /\ Len(self) = 2 ^ Len(args)) =>
          result.kind = "return"

TreeConstructionTerminatesWitness ==
    /\ op = "compiled"
    /\ self = T(<<1, 0, 0, 1, 0, 1, 1, 0>>)
    /\ result.kind = "return"
    /\ result.value.function.params = 3
    /\ Depth(result.value.function.body) = 3
    /\ result.value.function.body.body.body.index = 2

\* The row with every input other than the integer 0 replaced by 1.
NonZeroAsOne(row) ==
    [i \in 1..Len(row) |->
        IF row[i].type = "int" /\ row[i].value = 0 THEN PyInt(0) ELSE PyInt(1)]

\* C23: the function of compiled() validates nothing: on a row of arity()
\* inputs it returns the bit of the row in which every input other than 0
\* counts as 1, while the call of the operator on a row with an integer
\* outside {0, 1} raises InvalidArgumentValue; the two agree on the rows of
\* 0/1 inputs only.
FunctionValidatesNothing ==
    (op = "function" /\ Len(self) > 0 /\ Len(self) = 2 ^ Len(args)) =>
        /\ result.kind = "return"
        /\ result = call(self, NonZeroAsOne(args))
        /\ (AllInts(args) /\ ~IsBitSeq(args)) => call(self, args) = InvalidArgumentValue
        /\ IsBitSeq(args) <=> result = call(self, args)

FunctionValidatesNothingWitness ==
    /\ op = "function"
    /\ self = T(<<1, 0, 0, 1>>)
    /\ args = <<PyInt(2), PyInt(2)>>
    /\ result = Return(PyInt(1))

\* C24: a call with three or more 0/1 inputs on an operator of nonzero length
\* returns a bit only when the number of inputs is the arity; a row of any
\* other length, longer or shorter, is not in the enumeration of the rows and
\* the call raises.
LongRowsMustMatch ==
    (op = "__call__" /\ Len(self) > 0 /\ IsBitSeq(RowOf(args)) /\ Len(RowOf(args)) >= 3) =>
        /\ result.kind = "return" <=> Len(self) = 2 ^ Len(RowOf(args))
        /\ Len(self) # 2 ^ Len(RowOf(args)) => result = NotInList

\* Three inputs to an operator of arity 4.
LongRowsMustMatchWitness ==
    /\ op = "__call__"
    /\ Len(self) = 16
    /\ args = T(<<1, 1, 0>>)
    /\ result = NotInList

====
